---------------------------- MODULE Spec2Model ----------------------------
(***************************************************************************)
(* A model of the interactive research agent front-end (src/client.py):    *)
(* the session driver of main(), the command classifier, the argument      *)
(* parser, the resource cache, the message composer and the LangGraph      *)
(* agent loop built by create_graph().                                     *)
(*                                                                         *)
(* Text is modelled as a sequence of one-character strings, so that        *)
(* prefix tests, splits and strips are computed as the code computes them. *)
(***************************************************************************)
EXTENDS Integers, Sequences, FiniteSets, TLC

(***************************************************************************)
(* Bounds of the model.                                                    *)
(***************************************************************************)
\* Number of lines the main loop reads in one session.
MaxTurns == 2
\* Supersteps one agent.ainvoke may run before the graph runtime raises its
\* recursion error.  The runtime's default is 25; the model scales it down.
RecursionLimit == 3
\* Replies of the model that request tools, over the whole session.
MaxToolRequests == 2
\* Length of the free texts typed at the prompts.
MaxTextLen == 3
\* Number of key:value pairs written in one argument line.
MaxPairs == 2

(***************************************************************************)
(* Text literals of the program.                                           *)
(***************************************************************************)
ResourcePrefix == <<"@", "r", "e", "s", "o", "u", "r", "c", "e", ":">>
PromptPrefix == <<"@", "p", "r", "o", "m", "p", "t", ":">>
UseResourcePrefix == <<"@", "u", "s", "e", "_", "r", "e", "s", "o", "u", "r", "c", "e", ":">>
ExitWord == <<"e", "x", "i", "t">>
QuitWord == <<"q", "u", "i", "t">>
UsingHead == <<"[", "U", "S", "I", "N", "G", " ", "R", "E", "S", "O", "U", "R", "C", "E", ":", " ">>
UsingTail == <<"]", "\n">>
QueryHead == <<"\n", "\n", "U", "s", "e", "r", " ", "q", "u", "e", "r", "y", ":", " ">>
ErrorHead == <<"[", "E", "R", "R", "O", "R", ":", " ", "R", "e", "s", "o", "u", "r", "c", "e", " ", "'">>
ErrorMid == <<"'", " ", "n", "o", "t", " ", "f", "o", "u", "n", "d", ".", " ", "A", "v", "a", "i", "l", "a", "b", "l", "e", " ", "r", "e", "s", "o", "u", "r", "c", "e", "s", ":", " ">>
ErrorTail == <<"]", "\n", "\n", "U", "s", "e", "r", " ", "q", "u", "e", "r", "y", ":", " ">>

(***************************************************************************)
(* Python str operations used by the program.                              *)
(***************************************************************************)
\* The characters str.strip() removes (the ASCII ones).
Whitespace == {" ", "\t", "\n", "\r", "\f"}

UpperLetters == <<"A", "B", "C", "D", "E", "F", "G", "H", "I", "J", "K", "L", "M", "N", "O", "P", "Q", "R", "S", "T", "U", "V", "W", "X", "Y", "Z">>
LowerLetters == <<"a", "b", "c", "d", "e", "f", "g", "h", "i", "j", "k", "l", "m", "n", "o", "p", "q", "r", "s", "t", "u", "v", "w", "x", "y", "z">>

\* str.lower() on one character.
LowerChar(c) ==
    IF \E i \in 1..Len(UpperLetters) : UpperLetters[i] = c
    THEN LowerLetters[CHOOSE i \in 1..Len(UpperLetters) : UpperLetters[i] = c]
    ELSE c

\* str.lower()
Lower(s) == [i \in 1..Len(s) |-> LowerChar(s[i])]

\* F applied to the value of e, with e computed once.
With(e, F(_)) == CHOOSE y \in {F(x) : x \in {e}} : TRUE

\* s[a:b] with 1-based inclusive positions; empty when a > b.
Slice(s, a, b) == IF a > b THEN <<>> ELSE SubSeq(s, a, b)

\* A faulty variant of StartsWith: letter case is ignored.
StartsWith_AnyCase(s, prefix) ==
    /\ Len(s) >= Len(prefix)
    /\ \A i \in 1..Len(prefix) :
           \E n \in 1..26 :
               /\ s[i] \in {prefix[i], UpperLetters[n], LowerLetters[n]}
               /\ prefix[i] \in {s[i], UpperLetters[n], LowerLetters[n]}

\* str.startswith(prefix)
StartsWith(s, prefix) ==
    /\ Len(s) >= Len(prefix)
    /\ SubSeq(s, 1, Len(prefix)) = prefix

\* str.find(c): the 1-based position of the first c, 0 when there is none
\* (Python's 0-based index plus one; Python's -1 is 0 here).
Find(s, c) ==
    IF \E i \in 1..Len(s) : s[i] = c
    THEN CHOOSE i \in 1..Len(s) : s[i] = c /\ \A j \in 1..(i - 1) : s[j] # c
    ELSE 0

\* str.strip(chars): drop the characters of the set from both ends.
StripSet(s, chars) ==
    IF \A i \in 1..Len(s) : s[i] \in chars
    THEN <<>>
    ELSE LET first == CHOOSE i \in 1..Len(s) :
                          s[i] \notin chars /\ \A j \in 1..(i - 1) : s[j] \in chars
             last  == CHOOSE i \in 1..Len(s) :
                          s[i] \notin chars /\ \A j \in (i + 1)..Len(s) : s[j] \in chars
         IN  SubSeq(s, first, last)

\* str.strip()
Strip(s) == StripSet(s, Whitespace)

\* s.split(c, 1)[1]: the text after the first c (callers guarantee one exists).
AfterFirst(s, c) == Slice(s, Find(s, c) + 1, Len(s))

\* s.split(c, 1)[0]: the text before the first c.
BeforeFirst(s, c) == Slice(s, 1, Find(s, c) - 1)

\* s.split(c): the list of segments between the occurrences of c.
RECURSIVE Split(_, _)
Split(s, c) ==
    IF Find(s, c) = 0
    THEN <<s>>
    ELSE <<BeforeFirst(s, c)>> \o With(AfterFirst(s, c), LAMBDA rest : Split(rest, c))

\* sep.join(parts)
RECURSIVE Join(_, _)
Join(parts, sep) ==
    IF parts = <<>> THEN <<>>
    ELSE IF Len(parts) = 1 THEN parts[1]
    ELSE parts[1] \o sep \o Join(Tail(parts), sep)

(***************************************************************************)
(* Python dict, kept as the sequence of its items in insertion order.      *)
(***************************************************************************)
DictKeys(d) == [i \in 1..Len(d) |-> d[i].k]

DictHas(d, key) == \E i \in 1..Len(d) : d[i].k = key

DictGet(d, key) == d[CHOOSE i \in 1..Len(d) : d[i].k = key].v

\* del d[key]
DictDel(d, key) == SelectSeq(d, LAMBDA item : item.k # key)

\* d[key] = val: an existing key keeps its place, a new key goes last.
DictSet(d, key, val) ==
    IF DictHas(d, key)
    THEN [i \in 1..Len(d) |-> IF d[i].k = key THEN [k |-> key, v |-> val] ELSE d[i]]
    ELSE Append(d, [k |-> key, v |-> val])

(***************************************************************************)
(* Command classifier.                                                     *)
(***************************************************************************)
\* A faulty variant of extract_meta_command: the use_resource remainder is
\* cut at its first whitespace character of any kind.
extract_meta_command_AtWhitespace(message) ==
    IF StartsWith(message, ResourcePrefix)
    THEN [type |-> "resource",
          value |-> StripSet(Strip(AfterFirst(message, ":")), {"\""})]
    ELSE IF StartsWith(message, PromptPrefix)
    THEN [type |-> "prompt",
          value |-> StripSet(Strip(AfterFirst(message, ":")), {"\""})]
    ELSE IF StartsWith(message, UseResourcePrefix)
    THEN LET parts == Strip(AfterFirst(message, ":"))
             space_index ==
                 IF \E i \in 1..Len(parts) : parts[i] \in Whitespace
                 THEN CHOOSE i \in 1..Len(parts) :
                          parts[i] \in Whitespace /\ \A j \in 1..(i - 1) : parts[j] \notin Whitespace
                 ELSE 0
         IN  IF space_index # 0
             THEN [type |-> "use_resource",
                   value |-> [uri |-> Strip(Slice(parts, 1, space_index - 1)),
                              query |-> Strip(Slice(parts, space_index + 1, Len(parts)))]]
             ELSE [type |-> "use_resource",
                   value |-> [uri |-> Strip(parts), query |-> <<>>]]
    ELSE [type |-> "none", value |-> <<>>]

\* extract_meta_command: (cmd_type, value); value is a text, or for
\* use_resource the pair [uri, query]; ("none", <<>>) stands for (None, None).
extract_meta_command(message) ==
    IF StartsWith(message, ResourcePrefix)
    THEN [type |-> "resource",
          value |-> StripSet(Strip(AfterFirst(message, ":")), {"\""})]
    ELSE IF StartsWith(message, PromptPrefix)
    THEN [type |-> "prompt",
          value |-> StripSet(Strip(AfterFirst(message, ":")), {"\""})]
    ELSE IF StartsWith(message, UseResourcePrefix)
    THEN LET parts == Strip(AfterFirst(message, ":"))
             space_index == Find(parts, " ")
         IN  IF space_index # 0
             THEN [type |-> "use_resource",
                   value |-> [uri |-> Strip(Slice(parts, 1, space_index - 1)),
                              query |-> Strip(Slice(parts, space_index + 1, Len(parts)))]]
             ELSE [type |-> "use_resource",
                   value |-> [uri |-> Strip(parts), query |-> <<>>]]
    ELSE [type |-> "none", value |-> <<>>]

(***************************************************************************)
(* json.loads, on the texts the model feeds it.  A Python value is a       *)
(* record tagged by its type: dict (items in insertion order), list, str,  *)
(* num (the literal's text), bool, none.  The escapes \b and \uXXXX lie    *)
(* outside the model's alphabet and are not decoded.                       *)
(***************************************************************************)
JTrue == <<"t", "r", "u", "e">>
JFalse == <<"f", "a", "l", "s", "e">>
JNull == <<"n", "u", "l", "l">>
JNaN == <<"N", "a", "N">>
JInfinity == <<"I", "n", "f", "i", "n", "i", "t", "y">>
JNegInfinity == <<"-", "I", "n", "f", "i", "n", "i", "t", "y">>

JsonWhitespace == {" ", "\t", "\n", "\r"}
Digits == {"0", "1", "2", "3", "4", "5", "6", "7", "8", "9"}

PyNone == [t |-> "none"]
PyStr(s) == [t |-> "str", s |-> s]
PyDict(items) == [t |-> "dict", items |-> items]
EmptyDict == PyDict(<<>>)

JsonFail == [ok |-> FALSE, val |-> PyNone, pos |-> 0]
JsonOk(val, pos) == [ok |-> TRUE, val |-> val, pos |-> pos]

\* The first position at or after i that holds no JSON whitespace.
RECURSIVE SkipWs(_, _)
SkipWs(s, i) ==
    IF i <= Len(s) /\ s[i] \in JsonWhitespace THEN SkipWs(s, i + 1) ELSE i

\* The first position at or after i that holds no digit.
RECURSIVE SkipDigits(_, _)
SkipDigits(s, i) ==
    IF i <= Len(s) /\ s[i] \in Digits THEN SkipDigits(s, i + 1) ELSE i

\* Whether the literal lit stands at position i of s.
LiteralAt(s, i, lit) ==
    /\ i + Len(lit) - 1 <= Len(s)
    /\ SubSeq(s, i, i + Len(lit) - 1) = lit

\* The decoded character of the escape \c, or "" when the model has none.
Unescape(c) ==
    CASE c = "\"" -> "\""
      [] c = "\\" -> "\\"
      [] c = "/"  -> "/"
      [] c = "n"  -> "\n"
      [] c = "t"  -> "\t"
      [] c = "r"  -> "\r"
      [] c = "f"  -> "\f"
      [] OTHER    -> ""

\* scanstring: s[i] is the first character after the opening quote; acc is
\* the text decoded so far.
RECURSIVE ScanString(_, _, _)
ScanString(s, i, acc) ==
    IF i > Len(s) THEN JsonFail
    ELSE IF s[i] = "\"" THEN JsonOk(PyStr(acc), i + 1)
    ELSE IF s[i] = "\\"
    THEN IF i + 1 > Len(s) \/ Unescape(s[i + 1]) = ""
         THEN JsonFail
         ELSE ScanString(s, i + 2, Append(acc, Unescape(s[i + 1])))
    ELSE IF s[i] \in {"\n", "\t", "\r", "\f"} THEN JsonFail
    ELSE ScanString(s, i + 1, Append(acc, s[i]))

\* NUMBER_RE: -?(0|[1-9]\d*)(\.\d+)?([eE][-+]?\d+)? matched at position i.
\* The end of the exponent part that starts at position e (an "e" or "E"),
\* or e itself when no digits follow.
ExponentEnd(s, e) ==
    LET d == IF e + 1 <= Len(s) /\ s[e + 1] \in {"-", "+"} THEN e + 2 ELSE e + 1
        stop == SkipDigits(s, d)
    IN  IF stop > d THEN stop ELSE e

\* The end of the fraction part that starts at position p (a "."), or p
\* itself when no digits follow.
FractionEnd(s, p) ==
    LET stop == SkipDigits(s, p + 1)
    IN  IF stop > p + 1 THEN stop ELSE p

\* The number literal from position i whose integer part is s[a..intEnd-1].
NumberFrom(s, i, a, intEnd) ==
    LET fracEnd == IF intEnd <= Len(s) /\ s[intEnd] = "." THEN FractionEnd(s, intEnd)
                   ELSE intEnd
        expEnd == IF fracEnd <= Len(s) /\ s[fracEnd] \in {"e", "E"}
                  THEN ExponentEnd(s, fracEnd) ELSE fracEnd
    IN  IF intEnd = a THEN JsonFail
        ELSE JsonOk([t |-> "num", s |-> SubSeq(s, i, expEnd - 1)], expEnd)

ScanNumberAt(s, i, a) ==
    NumberFrom(s, i, a, IF a <= Len(s) /\ s[a] = "0" THEN a + 1 ELSE SkipDigits(s, a))

ScanNumber(s, i) ==
    ScanNumberAt(s, i, IF i <= Len(s) /\ s[i] = "-" THEN i + 1 ELSE i)

\* The constants the decoder accepts where no number matched.
ScanConstant(s, i, number) ==
    IF number.ok THEN number
    ELSE IF LiteralAt(s, i, JNaN) THEN JsonOk([t |-> "num", s |-> JNaN], i + Len(JNaN))
    ELSE IF LiteralAt(s, i, JInfinity)
    THEN JsonOk([t |-> "num", s |-> JInfinity], i + Len(JInfinity))
    ELSE IF LiteralAt(s, i, JNegInfinity)
    THEN JsonOk([t |-> "num", s |-> JNegInfinity], i + Len(JNegInfinity))
    ELSE JsonFail

\* scan_once: the value that starts at position i.
RECURSIVE ScanValue(_, _)
RECURSIVE ScanMembers(_, _, _)
RECURSIVE ScanElements(_, _, _)
RECURSIVE ScanCompound(_, _, _)
ScanValue(s, i) ==
    IF i > Len(s) THEN JsonFail
    ELSE IF s[i] = "\"" THEN ScanString(s, i + 1, <<>>)
    ELSE IF s[i] \in {"{", "["} THEN ScanCompound(s, s[i], SkipWs(s, i + 1))
    ELSE IF LiteralAt(s, i, JNull) THEN JsonOk(PyNone, i + Len(JNull))
    ELSE IF LiteralAt(s, i, JTrue) THEN JsonOk([t |-> "bool", b |-> TRUE], i + Len(JTrue))
    ELSE IF LiteralAt(s, i, JFalse) THEN JsonOk([t |-> "bool", b |-> FALSE], i + Len(JFalse))
    ELSE With(ScanNumber(s, i), LAMBDA number : ScanConstant(s, i, number))

\* JSONObject and JSONArray: j is the first position after the opening
\* bracket that holds no whitespace.
ScanCompound(s, open, j) ==
    IF open = "{"
    THEN IF j <= Len(s) /\ s[j] = "}" THEN JsonOk(EmptyDict, j + 1)
         ELSE ScanMembers(s, j, <<>>)
    ELSE IF j <= Len(s) /\ s[j] = "]" THEN JsonOk([t |-> "list", items |-> <<>>], j + 1)
         ELSE ScanElements(s, j, <<>>)

\* The pairs of an object with one more pair; a repeated key keeps its place
\* and takes the last value.
WithMember(items, key, val) ==
    IF \E n \in 1..Len(items) : items[n].k = key
    THEN [n \in 1..Len(items) |->
             IF items[n].k = key THEN [k |-> key, v |-> val] ELSE items[n]]
    ELSE Append(items, [k |-> key, v |-> val])

\* After a member's value: "}" ends the object, "," leads to the next key.
RECURSIVE MembersAfterValue(_, _, _)
MembersAfterValue(s, next, got) ==
    IF next > Len(s) THEN JsonFail
    ELSE IF s[next] = "}" THEN JsonOk(PyDict(got), next + 1)
    ELSE IF s[next] = "," THEN ScanMembers(s, SkipWs(s, next + 1), got)
    ELSE JsonFail

RECURSIVE MemberValue(_, _, _, _)
MemberValue(s, key, val, items) ==
    IF ~val.ok THEN JsonFail
    ELSE With(WithMember(items, key, val.val),
              LAMBDA got : MembersAfterValue(s, SkipWs(s, val.pos), got))

\* After a member's key: c is the first position after it that holds no
\* whitespace, where the colon must stand.
RECURSIVE MemberColon(_, _, _, _)
MemberColon(s, key, c, items) ==
    IF c > Len(s) \/ s[c] # ":" THEN JsonFail
    ELSE With(ScanValue(s, SkipWs(s, c + 1)), LAMBDA val : MemberValue(s, key, val, items))

RECURSIVE MemberKey(_, _, _)
MemberKey(s, key, items) ==
    IF ~key.ok THEN JsonFail
    ELSE With(SkipWs(s, key.pos), LAMBDA c : MemberColon(s, key.val.s, c, items))

\* The members of an object from position i, where a key's opening quote
\* must stand; items are the pairs decoded so far.
ScanMembers(s, i, items) ==
    IF i > Len(s) \/ s[i] # "\"" THEN JsonFail
    ELSE With(ScanString(s, i + 1, <<>>), LAMBDA key : MemberKey(s, key, items))

\* After an element: "]" ends the array, "," leads to the next element.
RECURSIVE ElementsAfterValue(_, _, _)
ElementsAfterValue(s, next, got) ==
    IF next > Len(s) THEN JsonFail
    ELSE IF s[next] = "]" THEN JsonOk([t |-> "list", items |-> got], next + 1)
    ELSE IF s[next] = "," THEN ScanElements(s, SkipWs(s, next + 1), got)
    ELSE JsonFail

RECURSIVE ElementValue(_, _, _)
ElementValue(s, val, items) ==
    IF ~val.ok THEN JsonFail
    ELSE With(Append(items, val.val),
              LAMBDA got : ElementsAfterValue(s, SkipWs(s, val.pos), got))

\* The elements of an array from position i.
ScanElements(s, i, items) ==
    With(ScanValue(s, i), LAMBDA val : ElementValue(s, val, items))

\* The decoded value when it is followed by nothing but whitespace.
WholeText(s, r) ==
    IF ~r.ok THEN JsonFail
    ELSE IF SkipWs(s, r.pos) = Len(s) + 1 THEN r
    ELSE JsonFail

\* json.loads: ok is FALSE where Python raises JSONDecodeError.
JsonLoads(s) == With(ScanValue(s, SkipWs(s, 1)), LAMBDA r : WholeText(s, r))

\* Python's truth value of a decoded value (the driver's "if not args").
NumberIsZero(text) ==
    LET stop == IF \E n \in 1..Len(text) : text[n] \in {"e", "E"}
                THEN (CHOOSE n \in 1..Len(text) : text[n] \in {"e", "E"}) - 1
                ELSE Len(text)
    IN  /\ text \notin {JNaN, JInfinity, JNegInfinity}
        /\ \A n \in 1..stop : text[n] \notin (Digits \ {"0"})

Truthy(val) ==
    CASE val.t = "dict" -> val.items # <<>>
      [] val.t = "list" -> val.items # <<>>
      [] val.t = "str"  -> val.s # <<>>
      [] val.t = "bool" -> val.b
      [] val.t = "none" -> FALSE
      [] val.t = "num"  -> ~NumberIsZero(val.s)

(***************************************************************************)
(* Argument parser.                                                        *)
(***************************************************************************)
\* A faulty variant of StorePair: the key is stored as it was cut.
StorePair_Unstripped(args, pair) ==
    IF Find(pair, ":") # 0
    THEN DictSet(args, BeforeFirst(pair, ":"), PyStr(Strip(AfterFirst(pair, ":"))))
    ELSE args

\* The loop over the comma-separated pairs: a segment holding a colon is
\* split at its first colon, both sides stripped, and stored in args.
StorePair(args, pair) ==
    IF Find(pair, ":") # 0
    THEN DictSet(args, Strip(BeforeFirst(pair, ":")), PyStr(Strip(AfterFirst(pair, ":"))))
    ELSE args

RECURSIVE PairsLoop(_, _)
PairsLoop(pairs, args) ==
    IF pairs = <<>> THEN args
    ELSE With(StorePair(args, Head(pairs)), LAMBDA stored : PairsLoop(Tail(pairs), stored))

\* The two strategies on the stripped text, given json.loads' outcome.
ParseDecoded(raw, decoded) ==
    IF decoded.ok THEN decoded.val
    ELSE PyDict(PairsLoop(Split(raw, ","), <<>>))

ParseStripped(raw) == With(JsonLoads(raw), LAMBDA decoded : ParseDecoded(raw, decoded))

\* parse_arguments: whatever json.loads decodes, of any type; otherwise the
\* dict of the comma-separated key:value pairs.  The pair loop cannot raise,
\* so the single-pair fallback and the final "return {}" are never reached.
parse_arguments(raw_input_str) ==
    With(Strip(raw_input_str), LAMBDA raw : ParseStripped(raw))

(***************************************************************************)
(* Message composer.                                                       *)
(***************************************************************************)
\* repr() of a list of texts, for texts without quotes or backslashes.
ListRepr(keys) ==
    <<"[">> \o Join([i \in 1..Len(keys) |-> <<"'">> \o keys[i] \o <<"'">>], <<",", " ">>) \o <<"]">>

\* A faulty variant of inject_resource_into_message: the cached content is
\* not found.
inject_resource_into_message_NotFound(cache, user_query, resource_uri) ==
    ErrorHead \o resource_uri \o ErrorMid \o ListRepr(DictKeys(cache))
        \o ErrorTail \o user_query

\* inject_resource_into_message, reading the cache it is given.
inject_resource_into_message(cache, user_query, resource_uri) ==
    IF DictHas(cache, resource_uri)
    THEN UsingHead \o resource_uri \o UsingTail
           \o DictGet(cache, resource_uri) \o QueryHead \o user_query
    ELSE ErrorHead \o resource_uri \o ErrorMid \o ListRepr(DictKeys(cache))
           \o ErrorTail \o user_query

(***************************************************************************)
(* The environment: what the user types and what the backends return.      *)
(***************************************************************************)
\* Lines typed at the "User:" prompt.
InputLines ==
    { <<"h", "i">>,
      ResourcePrefix \o <<"x">>,
      UseResourcePrefix \o <<"x", " ", "q">>,
      UseResourcePrefix \o <<"x">>,
      PromptPrefix \o <<"p">>,
      ExitWord }

\* Lines typed at the "Arguments:" prompt.
ArgLines ==
    { <<"t", ":", "a">>,
      <<"{", "\"", "t", "\"", ":", "\"", "a", "\"", "}">>,
      <<"n", "o", "n", "s", "e", "n", "s", "e">>,
      <<"7">> }

\* Texts blob[0].as_string() may yield for a fetched resource.
ResourceContents == { <<"A">>, <<"B">> }

\* Message lists load_mcp_prompt may return: none, one message, several.
PromptResults == { <<>>, << <<"P">> >>, << <<"P">>, <<"Q">> >> }

\* Why a prompt resolution raises.
PromptFailures == { "needs_arguments", "unknown_prompt", "backend_error" }

\* Tool lists the two backends may serve (name and serving backend).
Tool(name, server) == [name |-> name, server |-> server]
FirstToolLists == { << Tool("semantic_search", 1) >> }
SecondToolLists == { << Tool("firecrawl_scrape", 2) >>, << Tool("semantic_search", 2) >> }

\* The main loop's view of each line: message = input().strip(), the exit
\* test and extract_meta_command(message).
Classified ==
    [line \in InputLines |->
        [message |-> Strip(line), exit |-> Lower(Strip(line)) \in {ExitWord, QuitWord}]
            @@ extract_meta_command(Strip(line))]

\* parse_arguments(input().strip()) of each line typed at "Arguments:".
ParsedArguments == [line \in ArgLines |-> parse_arguments(Strip(line))]

(***************************************************************************)
(* Messages and the graph state.                                           *)
(***************************************************************************)
\* The session key of every agent.ainvoke of main().
ThreadId == 1234
ThreadIds == { ThreadId, ThreadId + 1 }

\* A faulty variant of config: the use_resource branch under a key of its own.
config_PerBranch(branch) ==
    [thread_id |-> IF branch = "use_resource" THEN ThreadId + 1 ELSE ThreadId]

\* config: the configuration main() passes to agent.ainvoke in a branch.
config(branch) == [thread_id |-> ThreadId]

NoCall == <<>>
HumanMessage(content) ==
    [id |-> 0, type |-> "human", content |-> content, tool_calls |-> <<>>,
     name |-> "", tool_call_id |-> NoCall, status |-> ""]
AIMessage(content, tool_calls) ==
    [id |-> 0, type |-> "ai", content |-> content, tool_calls |-> tool_calls,
     name |-> "", tool_call_id |-> NoCall, status |-> ""]
ToolMessage(content, name, tool_call_id, status) ==
    [id |-> 0, type |-> "tool", content |-> content, tool_calls |-> <<>>,
     name |-> name, tool_call_id |-> tool_call_id, status |-> status]

\* add_messages, the reducer of State.messages: a message without an id gets
\* a fresh one; a message whose id is already in the list replaces that
\* entry in place, any other message is appended.
MergeOne(left, m) ==
    IF \E i \in 1..Len(left) : left[i].id = m.id
    THEN [i \in 1..Len(left) |-> IF left[i].id = m.id THEN m ELSE left[i]]
    ELSE Append(left, m)

RECURSIVE MergeMessages(_, _)
MergeMessages(left, right) ==
    IF right = <<>> THEN left
    ELSE With(MergeOne(left, Head(right)), LAMBDA merged : MergeMessages(merged, Tail(right)))

AssignIds(left, right) ==
    [k \in 1..Len(right) |->
        IF right[k].id = 0 THEN [right[k] EXCEPT !.id = Len(left) + k] ELSE right[k]]

add_messages(left, right) ==
    With(<<left, right>>,
         LAMBDA io : With(AssignIds(io[1], io[2]), LAMBDA new : MergeMessages(io[1], new)))

\* A faulty variant of tools_condition: the run ends after every reply.
tools_condition_AlwaysEnd(messages) == "__end__"

\* tools_condition: route on the last message's tool calls.
tools_condition(messages) ==
    IF messages[Len(messages)].type = "ai" /\ messages[Len(messages)].tool_calls # <<>>
    THEN "tools" ELSE "__end__"

\* ToolNode's tools_by_name: {tool.name: tool for tool in tools}.
RECURSIVE ToolsByName(_, _)
ToolsByName(tool_list, acc) ==
    IF tool_list = <<>> THEN acc
    ELSE ToolsByName(Tail(tool_list), DictSet(acc, Head(tool_list).name, Head(tool_list)))

\* What the model may answer: a final text, or tool requests by name.
AnswerText == <<"o", "k">>
ToolCallLists(tool_list) ==
    { <<tool_list[1].name>>, <<tool_list[1].name, tool_list[Len(tool_list)].name>> }

\* The tool calls of the reply that becomes message number n.
ToolCalls(names, n) == [i \in 1..Len(names) |-> [name |-> names[i], id |-> <<n, i>>]]

\* The text a tool execution on a backend yields.
ToolOutput(server) == <<"r", ToString(server)>>

\* A faulty variant of ToolNodeOutputs: the tool messages in the order in
\* which the executions completed.
ToolNodeOutputs_ByCompletion(calls, results, completed) ==
    [i \in 1..Len(completed) |->
        ToolMessage(results[completed[i]].content, calls[completed[i]].name,
                    calls[completed[i]].id, results[completed[i]].status)]

\* ToolNode's output for one round: one tool message per request, in the
\* order of the requests (asyncio.gather keeps the order of its arguments),
\* whatever the order in which the executions completed.
ToolNodeOutputs(calls, results, completed) ==
    [i \in 1..Len(calls) |->
        ToolMessage(results[i].content, calls[i].name, calls[i].id, results[i].status)]

(***************************************************************************)
(* State.                                                                  *)
(***************************************************************************)
VARIABLES
    pc,                \* where main() stands
    nturns,            \* lines read by the main loop so far
    first_tools,       \* load_mcp_tools(first_session)
    second_tools,      \* load_mcp_tools(second_session)
    tools,             \* the merged tool list
    tools_by_name,     \* ToolNode's name -> tool mapping
    loaded_resources,  \* the resource cache
    checkpoints,       \* MemorySaver: thread id -> State.messages
    cmd,               \* the line of the turn and its classification
    args,              \* parse_arguments' result in the @prompt: retry path
    run,               \* the running agent.ainvoke: node, superstep, tool round
    invoked,           \* thread ids agent.ainvoke was called with
    snap,              \* cache and checkpoints when the turn's line was read
    log,               \* what the turn did so far, in order
    nrequests,         \* replies of the model that requested tools so far
    fetched            \* per URI, the text of its latest non-empty fetch

vars == <<fetched, nrequests, pc, nturns, first_tools, second_tools, tools, tools_by_name,
          loaded_resources, checkpoints, cmd, args, run, invoked, snap, log>>

NoRun == [thread |-> 0, node |-> "none", step |-> 0,
          calls |-> <<>>, results |-> <<>>, completed |-> <<>>]

\* The Conversation: the messages stored under the session key.
Conversation == checkpoints[ThreadId]

Init ==
    /\ pc = "setup"
    /\ nturns = 0
    /\ first_tools \in FirstToolLists
    /\ second_tools \in SecondToolLists
    /\ tools = <<>>
    /\ tools_by_name = <<>>
    /\ loaded_resources = <<>>
    /\ checkpoints = [th \in ThreadIds |-> <<>>]
    /\ cmd = [message |-> <<>>, type |-> "none", value |-> <<>>]
    /\ args = EmptyDict
    /\ run = NoRun
    /\ invoked = {}
    /\ snap = [cache |-> <<>>, checkpoints |-> [th \in ThreadIds |-> <<>>]]
    /\ log = <<>>
    /\ nrequests = 0
    /\ fetched = <<>>

(***************************************************************************)
(* Startup: main() up to the main loop, with create_graph().               *)
(***************************************************************************)
\* create_graph: the two tool lists are concatenated as they come, the model
\* is bound to them and ToolNode indexes them by name; then the banner.
Setup ==
    /\ pc = "setup"
    /\ tools' = first_tools \o second_tools
    /\ tools_by_name' = ToolsByName(first_tools \o second_tools, <<>>)
    /\ pc' = "input"
    /\ UNCHANGED <<fetched, nrequests, nturns, first_tools, second_tools, loaded_resources,
                   checkpoints, cmd, args, run, invoked, snap, log>>

\* A backend session cannot be opened, or listing tools or resources raises:
\* the exception leaves main().
SetupFails ==
    /\ pc = "setup"
    /\ pc' = "failed"
    /\ UNCHANGED <<fetched, nrequests, nturns, first_tools, second_tools, tools, tools_by_name,
                   loaded_resources, checkpoints, cmd, args, run, invoked, snap, log>>

(***************************************************************************)
(* The main loop: reading a line and branching on its classification.      *)
(***************************************************************************)
\* The two checks of the use_resource branch before the agent is invoked.
QueryMissing(user_query) == user_query = <<>>
\* A faulty variant of ResourceMissing: the cache is not consulted.
ResourceMissing_Unchecked(cache, resource_uri) == FALSE
ResourceMissing(cache, resource_uri) == ~DictHas(cache, resource_uri)

\* The main loop awaits a line (and the model lets the user type one more).
AtPrompt ==
    /\ pc = "input"
    /\ nturns < MaxTurns

\* What every read of a line other than exit or quit sets (args, a local of
\* the retry path, is not read again before it is assigned).
BeginTurn(line) ==
    /\ nturns' = nturns + 1
    /\ cmd' = [message |-> Classified[line].message, type |-> Classified[line].type,
               value |-> Classified[line].value]
    /\ snap' = [cache |-> loaded_resources, checkpoints |-> checkpoints]
    /\ args' = EmptyDict
    /\ UNCHANGED <<fetched, nrequests, first_tools, second_tools, tools, tools_by_name>>

\* agent.ainvoke({"messages": content}, config): the input is written to the
\* thread's state through add_messages and the graph starts at chat_node.
AgentStart(content, branch) ==
    /\ checkpoints' = [checkpoints EXCEPT ![config(branch).thread_id] =
                          add_messages(@, <<HumanMessage(content)>>)]
    /\ run' = [NoRun EXCEPT !.thread = config(branch).thread_id, !.node = "chat_node"]
    /\ invoked' = invoked \cup {config(branch).thread_id}
    /\ pc' = "agent"

ReadExit ==
    /\ AtPrompt
    /\ \E line \in InputLines :
        /\ Classified[line].exit
        /\ pc' = "exited"
        /\ nturns' = nturns + 1
    /\ log' = <<"exit">>
    /\ UNCHANGED <<fetched, nrequests, first_tools, second_tools, tools, tools_by_name,
                   loaded_resources, checkpoints, cmd, args, run, invoked, snap>>

ReadUseResourceNoQuery ==
    /\ AtPrompt
    /\ \E line \in InputLines :
        /\ ~Classified[line].exit
        /\ Classified[line].type = "use_resource"
        /\ QueryMissing(Classified[line].value.query)
        /\ BeginTurn(line)
        /\ log' = <<"use_resource", "report_usage">>
        /\ pc' = "input"
    /\ UNCHANGED <<loaded_resources, checkpoints, run, invoked>>

ReadUseResourceNotLoaded ==
    /\ AtPrompt
    /\ \E line \in InputLines :
        /\ ~Classified[line].exit
        /\ Classified[line].type = "use_resource"
        /\ ~QueryMissing(Classified[line].value.query)
        /\ ResourceMissing(loaded_resources, Classified[line].value.uri)
        /\ BeginTurn(line)
        /\ log' = <<"use_resource", "report_not_loaded">>
        /\ pc' = "input"
    /\ UNCHANGED <<loaded_resources, checkpoints, run, invoked>>

ReadUseResource ==
    /\ AtPrompt
    /\ \E line \in InputLines :
        /\ ~Classified[line].exit
        /\ Classified[line].type = "use_resource"
        /\ ~QueryMissing(Classified[line].value.query)
        /\ ~ResourceMissing(loaded_resources, Classified[line].value.uri)
        /\ BeginTurn(line)
        /\ AgentStart(inject_resource_into_message(loaded_resources,
                                                   Classified[line].value.query,
                                                   Classified[line].value.uri),
                      "use_resource")
        /\ log' = <<"use_resource", "invoke">>
    /\ UNCHANGED loaded_resources

ReadPrompt ==
    /\ AtPrompt
    /\ \E line \in InputLines :
        /\ ~Classified[line].exit
        /\ Classified[line].type = "prompt"
        /\ BeginTurn(line)
        /\ log' = <<"prompt", "resolve">>
        /\ pc' = "prompt_load"
    /\ UNCHANGED <<loaded_resources, checkpoints, run, invoked>>

\* The resource branch up to its await: a cached copy is deleted first.
ReadResource ==
    /\ AtPrompt
    /\ \E line \in InputLines :
        /\ ~Classified[line].exit
        /\ Classified[line].type = "resource"
        /\ BeginTurn(line)
        /\ loaded_resources' = IF DictHas(loaded_resources, Classified[line].value)
                               THEN DictDel(loaded_resources, Classified[line].value)
                               ELSE loaded_resources
        /\ log' = <<"resource", "fetch">>
        /\ pc' = "resource_fetch"
    /\ UNCHANGED <<checkpoints, run, invoked>>

ReadChat ==
    /\ AtPrompt
    /\ \E line \in InputLines :
        /\ ~Classified[line].exit
        /\ Classified[line].type = "none"
        /\ BeginTurn(line)
        /\ AgentStart(Classified[line].message, "chat")
        /\ log' = <<"chat", "invoke">>
    /\ UNCHANGED loaded_resources

(***************************************************************************)
(* The resource branch after load_mcp_resources returns or raises.         *)
(***************************************************************************)
Backend == <<fetched, nrequests, nturns, first_tools, second_tools, tools, tools_by_name, cmd, snap>>

\* A faulty variant of StoreResource: the entry is made, the content is lost.
StoreResource_Blank(cache, uri, content) == DictSet(cache, uri, <<>>)

\* The cache after the fetch returned a non-empty blob list.
StoreResource(cache, uri, content) == DictSet(cache, uri, content)

\* A faulty variant of ResourceLoaded: the loaded content is also put into
\* the Conversation as a user message.
ResourceLoaded_IntoConversation ==
    /\ pc = "resource_fetch"
    /\ \E content \in ResourceContents :
        /\ loaded_resources' = StoreResource(loaded_resources, cmd.value, content)
        /\ fetched' = DictSet(fetched, cmd.value, content)
        /\ checkpoints' = [checkpoints EXCEPT ![ThreadId] =
                              add_messages(@, <<HumanMessage(content)>>)]
    /\ log' = Append(log, "report_loaded")
    /\ pc' = "input"
    /\ UNCHANGED <<nrequests, nturns, first_tools, second_tools, tools, tools_by_name,
                   cmd, snap, args, run, invoked>>

\* The fetch returned a non-empty blob list: its first blob is cached.
ResourceLoaded ==
    /\ pc = "resource_fetch"
    /\ \E content \in ResourceContents :
        /\ loaded_resources' = StoreResource(loaded_resources, cmd.value, content)
        /\ fetched' = DictSet(fetched, cmd.value, content)
    /\ log' = Append(log, "report_loaded")
    /\ pc' = "input"
    /\ UNCHANGED <<nrequests, nturns, first_tools, second_tools, tools, tools_by_name,
                   cmd, snap, checkpoints, args, run, invoked>>

ResourceEmpty ==
    /\ pc = "resource_fetch"
    /\ log' = Append(log, "report_no_resource")
    /\ pc' = "input"
    /\ UNCHANGED <<Backend, loaded_resources, checkpoints, args, run, invoked>>

\* load_mcp_resources (or as_string) raises: the handler only prints.
ResourceFetchFails ==
    /\ pc = "resource_fetch"
    /\ log' = Append(log, "report_fetch_failure")
    /\ pc' = "input"
    /\ UNCHANGED <<Backend, loaded_resources, checkpoints, args, run, invoked>>

(***************************************************************************)
(* The prompt branch.                                                      *)
(***************************************************************************)
\* prompt[0].content for one message, the contents joined by newlines else.
PromptMessage(prompt) ==
    IF Len(prompt) = 1 THEN prompt[1] ELSE Join(prompt, <<"\n">>)

\* The first resolution returned messages: they go to the agent.
PromptLoaded ==
    /\ pc = "prompt_load"
    /\ \E prompt \in PromptResults :
        /\ prompt # <<>>
        /\ AgentStart(PromptMessage(prompt), "prompt")
        /\ log' = log \o <<"resolved", "invoke">>
        /\ UNCHANGED <<Backend, loaded_resources, args>>

\* Composing the prompt text raises (a message content that is not text):
\* the inner handler reports it and the turn ends.
PromptUnusable ==
    /\ pc = "prompt_load"
    /\ log' = log \o <<"resolved", "report_failed_to_load">>
    /\ pc' = "input"
    /\ UNCHANGED <<Backend, loaded_resources, checkpoints, args, run, invoked>>

PromptEmpty ==
    /\ pc = "prompt_load"
    /\ log' = Append(log, "report_no_messages")
    /\ pc' = "input"
    /\ UNCHANGED <<Backend, loaded_resources, checkpoints, args, run, invoked>>

\* Where the handler of a failed first resolution leads: the one except
\* clause takes every exception, whatever its cause, to the argument prompt.
AfterResolutionFailure(cause) == "args_input"

\* The first resolution raised.
PromptFails ==
    /\ pc = "prompt_load"
    /\ \E cause \in PromptFailures :
        /\ log' = log \o <<cause, "report_requires_arguments">>
        /\ pc' = AfterResolutionFailure(cause)
        /\ UNCHANGED <<Backend, loaded_resources, checkpoints, args, run, invoked>>

\* A faulty variant of ArgsRejected: whatever was parsed is passed on.
ArgsRejected_Never(parsed) == FALSE

\* "if not args": the parsed arguments are rejected.
ArgsRejected(parsed) == ~Truthy(parsed)

ReadArgumentsRejected ==
    /\ pc = "args_input"
    /\ \E line \in ArgLines :
        /\ ArgsRejected(ParsedArguments[line])
        /\ args' = ParsedArguments[line]
        /\ log' = log \o <<"read_arguments", "report_parse_failure">>
        /\ pc' = "input"
        /\ UNCHANGED <<Backend, loaded_resources, checkpoints, run, invoked>>

ReadArguments ==
    /\ pc = "args_input"
    /\ \E line \in ArgLines :
        /\ ~ArgsRejected(ParsedArguments[line])
        /\ args' = ParsedArguments[line]
        /\ log' = log \o <<"read_arguments", "resolve">>
        /\ pc' = "prompt_load_args"
        /\ UNCHANGED <<Backend, loaded_resources, checkpoints, run, invoked>>

PromptWithArgsLoaded ==
    /\ pc = "prompt_load_args"
    /\ \E prompt \in PromptResults :
        /\ prompt # <<>>
        /\ AgentStart(PromptMessage(prompt), "prompt_args")
        /\ log' = log \o <<"resolved", "invoke">>
        /\ UNCHANGED <<Backend, loaded_resources, args>>

PromptWithArgsEmpty ==
    /\ pc = "prompt_load_args"
    /\ log' = Append(log, "report_no_messages")
    /\ pc' = "input"
    /\ UNCHANGED <<Backend, loaded_resources, checkpoints, args, run, invoked>>

\* A faulty variant of PromptWithArgsFails: the failure leads back to the
\* argument prompt.
PromptWithArgsFails_Retries ==
    /\ pc = "prompt_load_args"
    /\ \E cause \in PromptFailures :
        /\ log' = log \o <<cause, "report_requires_arguments">>
        /\ pc' = "args_input"
        /\ UNCHANGED <<Backend, loaded_resources, checkpoints, args, run, invoked>>

\* The second resolution, or composing its text, raises.
PromptWithArgsFails ==
    /\ pc = "prompt_load_args"
    /\ \E cause \in PromptFailures :
        /\ log' = log \o <<cause, "report_failed_with_arguments">>
        /\ pc' = "input"
        /\ UNCHANGED <<Backend, loaded_resources, checkpoints, args, run, invoked>>

(***************************************************************************)
(* The agent loop: START -> chat_node -> {tool_node -> chat_node}* -> END. *)
(***************************************************************************)
\* A faulty variant of OutOfSteps: a runtime without a recursion limit.
OutOfSteps_Never(step) == FALSE

\* The graph runtime's recursion limit: no superstep starts once the run
\* has taken that many.
OutOfSteps(step) == step >= RecursionLimit

Running(node) ==
    /\ pc = "agent"
    /\ run.node = node
    /\ ~OutOfSteps(run.step)

\* A faulty variant of AfterAgentError: the exception leaves main().
AfterAgentError_Uncaught == "crashed"

\* Where the driver goes when agent.ainvoke raises: every call sits in a
\* try whose handler prints "Agent error" and the loop continues.
AfterAgentError == "input"

\* chat_node: the model answers without tool requests; tools_condition ends
\* the run, ainvoke returns and the driver prints the reply.
LlmAnswers ==
    /\ Running("chat_node")
    /\ \E after \in {add_messages(checkpoints[run.thread], <<AIMessage(AnswerText, <<>>)>>)} :
           /\ checkpoints' = [checkpoints EXCEPT ![run.thread] = after]
           /\ tools_condition(after) = "__end__"
    /\ run' = NoRun
    /\ log' = Append(log, "print_reply")
    /\ pc' = "input"
    /\ UNCHANGED <<Backend, loaded_resources, args, invoked>>

\* chat_node: the model requests tools; tools_condition routes to tool_node.
LlmRequestsTools ==
    /\ Running("chat_node")
    /\ nrequests < MaxToolRequests
    /\ nrequests' = nrequests + 1
    /\ \E names \in ToolCallLists(tools) :
        \E calls \in {ToolCalls(names, Len(checkpoints[run.thread]) + 1)} :
        \E after \in {add_messages(checkpoints[run.thread], <<AIMessage(<<>>, calls)>>)} :
            /\ checkpoints' = [checkpoints EXCEPT ![run.thread] = after]
            /\ run' = IF tools_condition(after) = "tools"
                      THEN [run EXCEPT !.node = "tool_node", !.step = @ + 1,
                                       !.calls = calls,
                                       !.results = [i \in 1..Len(calls) |->
                                                       [done |-> FALSE, content |-> <<>>, status |-> ""]],
                                       !.completed = <<>>]
                      ELSE NoRun
            /\ pc' = IF tools_condition(after) = "tools" THEN "agent" ELSE "input"
            /\ log' = IF tools_condition(after) = "tools" THEN log ELSE Append(log, "print_reply")
    /\ UNCHANGED <<fetched, nturns, first_tools, second_tools, tools, tools_by_name, cmd,
                   snap, loaded_resources, args, invoked>>

\* A faulty variant of LlmFails: a reply of the failed call is committed
\* before the exception leaves ainvoke.
LlmFails_CommitsReply ==
    /\ Running("chat_node")
    /\ checkpoints' = [checkpoints EXCEPT ![run.thread] =
                          add_messages(@, <<AIMessage(<<>>, <<>>)>>)]
    /\ run' = NoRun
    /\ log' = Append(log, "report_agent_error")
    /\ pc' = AfterAgentError
    /\ UNCHANGED <<Backend, loaded_resources, args, invoked>>

\* chat_node raises (the model call fails): nothing is written, the
\* exception leaves ainvoke and the driver reports it.
LlmFails ==
    /\ Running("chat_node")
    /\ run' = NoRun
    /\ log' = Append(log, "report_agent_error")
    /\ pc' = AfterAgentError
    /\ UNCHANGED <<Backend, loaded_resources, checkpoints, args, invoked>>

\* tool_node: one pending execution completes, on the backend the name maps to.
ToolReturns ==
    /\ Running("tool_node")
    /\ \E i \in 1..Len(run.calls) :
        /\ ~run.results[i].done
        /\ run' = [run EXCEPT
                      !.results[i] =
                          [done |-> TRUE,
                           content |-> ToolOutput(DictGet(tools_by_name, run.calls[i].name).server),
                           status |-> "success"],
                      !.completed = Append(@, i)]
    /\ UNCHANGED <<Backend, pc, loaded_resources, checkpoints, args, invoked, log>>

\* tool_node: every execution completed; the tool messages are written and
\* the edge back to chat_node is taken.
ToolNodeDone ==
    /\ Running("tool_node")
    /\ \A i \in 1..Len(run.calls) : run.results[i].done
    /\ checkpoints' = [checkpoints EXCEPT ![run.thread] =
                          add_messages(@, ToolNodeOutputs(run.calls, run.results, run.completed))]
    /\ run' = [run EXCEPT !.node = "chat_node", !.step = @ + 1]
    /\ UNCHANGED <<Backend, pc, loaded_resources, args, invoked, log>>

\* The recursion limit is reached with a node still to run: the runtime
\* raises, ainvoke fails and the driver reports it.
AgentRecursionError ==
    /\ pc = "agent"
    /\ run.node # "none"
    /\ OutOfSteps(run.step)
    /\ run' = NoRun
    /\ log' = log \o <<"recursion_limit", "report_agent_error">>
    /\ pc' = AfterAgentError
    /\ UNCHANGED <<Backend, loaded_resources, checkpoints, args, invoked>>

(***************************************************************************)
(* Specifications.                                                         *)
(***************************************************************************)
ReadLine ==
    \/ ReadExit
    \/ ReadUseResourceNoQuery
    \/ ReadUseResourceNotLoaded
    \/ ReadUseResource
    \/ ReadPrompt
    \/ ReadResource
    \/ ReadChat

\* Every step that is not the user typing at the "User:" prompt.
Respond ==
    \/ Setup
    \/ SetupFails
    \/ ResourceLoaded
    \/ ResourceEmpty
    \/ ResourceFetchFails
    \/ PromptLoaded
    \/ PromptUnusable
    \/ PromptEmpty
    \/ PromptFails
    \/ ReadArgumentsRejected
    \/ ReadArguments
    \/ PromptWithArgsLoaded
    \/ PromptWithArgsEmpty
    \/ PromptWithArgsFails
    \/ LlmAnswers
    \/ LlmRequestsTools
    \/ LlmFails
    \/ ToolReturns
    \/ ToolNodeDone
    \/ AgentRecursionError

Next == ReadLine \/ Respond

Spec == Init /\ [][Next]_vars

\* Every awaited backend call returns or raises, and the user answers the
\* "Arguments:" prompt; the user need not type another line at "User:".
LiveSpec == Init /\ [][Next]_vars /\ WF_vars(Respond)

(***************************************************************************)
(* parse_arguments on its own: a text is typed at "Arguments:" and parsed. *)
(* cmd holds the text typed (message), the format it was written in (type) *)
(* and, for the two pair formats, the pairs it was written from (value);   *)
(* args receives the result.                                               *)
(***************************************************************************)
\* Every text over the alphabet, up to n characters long.
Texts(alphabet, n) == UNION {[1..k -> alphabet] : k \in 0..n}

\* Free texts: short ones over the characters the parser looks at, the
\* driver's argument lines, and literals that decode to other JSON types.
ArgAlphabet == {"a", ":", ",", " ", "1", "\""}
ArgTexts ==
    Texts(ArgAlphabet, MaxTextLen) \cup ArgLines
        \cup { <<"[", "1", "]">>, <<"{", "}">>, <<"n", "u", "l", "l">>,
                <<"{", "\"", "a", "\"", ":", "1", "}">> }

\* Keys and values free of commas, colons, quotes and outer whitespace.
PairKeys == { <<"a">>, <<"b">> }
PairValues == { <<"1">>, <<"x", " ", "y">>, <<"\\">> }
PairLists ==
    UNION {[1..n -> [k : PairKeys, v : PairValues]] : n \in 0..MaxPairs}

\* The line "k1:v1, k2:v2, ..." for the pairs.
CommaText(pairs) ==
    Join([i \in 1..Len(pairs) |-> pairs[i].k \o <<":">> \o pairs[i].v], <<",", " ">>)

\* The JSON string literal of a text: quotes and backslashes escaped.
JsonQuote(s) ==
    <<"\"">>
        \o Join([i \in 1..Len(s) |->
                    IF s[i] \in {"\"", "\\"} THEN <<"\\", s[i]>> ELSE <<s[i]>>], <<>>)
        \o <<"\"">>

\* The JSON object {"k1":"v1","k2":"v2",...} for the pairs.
JsonText(pairs) ==
    <<"{">>
        \o Join([i \in 1..Len(pairs) |->
                    JsonQuote(pairs[i].k) \o <<":">> \o JsonQuote(pairs[i].v)], <<",">>)
        \o <<"}">>

\* What is typed: a free text, or a list of pairs in one of the two formats.
TypedArguments ==
    {[message |-> text, type |-> "free", value |-> <<>>] : text \in ArgTexts}
        \cup {[message |-> CommaText(pairs), type |-> "comma", value |-> pairs] :
                 pairs \in PairLists}
        \cup {[message |-> JsonText(pairs), type |-> "json", value |-> pairs] :
                 pairs \in PairLists}

\* The driver's variables outside the step under study, as main() starts.
DriverAtStart ==
    /\ nturns = 0
    /\ first_tools = <<>>
    /\ second_tools = <<>>
    /\ tools = <<>>
    /\ tools_by_name = <<>>
    /\ loaded_resources = <<>>
    /\ checkpoints = [th \in ThreadIds |-> <<>>]
    /\ run = NoRun
    /\ invoked = {}
    /\ snap = [cache |-> <<>>, checkpoints |-> [th \in ThreadIds |-> <<>>]]
    /\ log = <<>>
    /\ nrequests = 0
    /\ fetched = <<>>

ParseInit ==
    /\ pc = "parse_call"
    /\ cmd \in TypedArguments
    /\ args = EmptyDict
    /\ DriverAtStart

\* args = parse_arguments(raw_input_str)
ParseCall ==
    /\ pc = "parse_call"
    /\ args' = parse_arguments(cmd.message)
    /\ pc' = "parse_return"
    /\ UNCHANGED <<Backend, loaded_resources, checkpoints, run, invoked, log>>

ParseNext == ParseCall

ParseSpec == ParseInit /\ [][ParseNext]_vars

(***************************************************************************)
(* The head of the main loop on its own: a line is typed at "User:",       *)
(* stripped, tested for the exit words, classified and dispatched; a chat  *)
(* line goes to the agent.                                                 *)
(***************************************************************************)
\* How a typed line begins: nothing, the three directives, near misses of
\* them, and the exit words in several cases.
LineHeads ==
    { <<>>, ResourcePrefix, PromptPrefix, UseResourcePrefix,
      <<"@", "R", "e", "s", "o", "u", "r", "c", "e", ":">>,
      <<"@", "r", "e", "s", "o", "u", "r", "c", "e">>,
      <<"@", "f", "o", "o", ":">>,
      ExitWord, <<"E", "X", "I", "T">>, <<"Q", "u", "i", "t">> }

\* How it goes on.
TailAlphabet == {"x", " ", "\t", "\""}

\* The two lines the directive's usage is documented with.
UsageLines ==
    { UseResourcePrefix \o <<"f", "o", "o", " ", "b", "a", "r", " ", "b", "a", "z">>,
      UseResourcePrefix \o <<"f", "o", "o">> }

TypedLines ==
    {head \o tail : head \in LineHeads, tail \in Texts(TailAlphabet, MaxTextLen)}
        \cup UsageLines

\* message = input().strip(), not yet looked at.
LineInit ==
    /\ pc = "line_read"
    /\ \E line \in TypedLines : cmd = [message |-> Strip(line), type |-> "unread", value |-> <<>>]
    /\ args = EmptyDict
    /\ DriverAtStart

\* The exit test succeeds: the loop is left.
LineExit ==
    /\ pc = "line_read"
    /\ Lower(cmd.message) \in {ExitWord, QuitWord}
    /\ pc' = "exited"
    /\ UNCHANGED <<Backend, loaded_resources, checkpoints, args, run, invoked, log>>

\* cmd_type, value = extract_meta_command(message)
LineClassify ==
    /\ pc = "line_read"
    /\ Lower(cmd.message) \notin {ExitWord, QuitWord}
    /\ cmd' = [message |-> cmd.message] @@ extract_meta_command(cmd.message)
    /\ pc' = "dispatch"
    /\ UNCHANGED <<fetched, nrequests, nturns, first_tools, second_tools, tools,
                   tools_by_name, snap, loaded_resources, checkpoints, args, run, invoked, log>>

\* One of the three directive branches is entered.
LineDirective ==
    /\ pc = "dispatch"
    /\ cmd.type \in {"resource", "prompt", "use_resource"}
    /\ log' = <<cmd.type>>
    /\ pc' = "directive"
    /\ UNCHANGED <<Backend, loaded_resources, checkpoints, args, run, invoked>>

\* The else branch: the line itself is the input of agent.ainvoke.
LineChat ==
    /\ pc = "dispatch"
    /\ cmd.type = "none"
    /\ AgentStart(cmd.message, "chat")
    /\ log' = <<"chat", "invoke">>
    /\ UNCHANGED <<Backend, loaded_resources, args>>

LineNext == LineExit \/ LineClassify \/ LineDirective \/ LineChat

LineSpec == LineInit /\ [][LineNext]_vars

(***************************************************************************)
(* Loading a resource and then using it, on their own: "@resource:P" is    *)
(* typed and its fetch returns, then "@use_resource:P q" is typed.         *)
(***************************************************************************)
\* Payloads without whitespace, plain, quoted or with a colon.
KeyPayloads == Texts({"x", "\"", ":"}, MaxTextLen) \ {<<>>}

\* What follows the payload and a space on the second line.
KeyQueries == { <<>>, <<"q">> }

KeyInit ==
    /\ pc = "key_load"
    /\ \E payload \in KeyPayloads, query \in KeyQueries :
           cmd = [payload |-> payload, query |-> query,
                  message |-> <<>>, type |-> "unread", value |-> <<>>]
    /\ args = EmptyDict
    /\ DriverAtStart

\* The line a scenario step types, stripped and classified.
KeyRead(line) ==
    [payload |-> cmd.payload, query |-> cmd.query, message |-> Strip(line)]
        @@ extract_meta_command(Strip(line))

\* The resource branch with a fetch that returns content.
KeyLoad ==
    /\ pc = "key_load"
    /\ \E read \in {KeyRead(ResourcePrefix \o cmd.payload)} :
        \E content \in ResourceContents :
            /\ read.type = "resource"
            /\ cmd' = read
            /\ loaded_resources' =
                   StoreResource(IF DictHas(loaded_resources, read.value)
                                 THEN DictDel(loaded_resources, read.value)
                                 ELSE loaded_resources,
                                 read.value, content)
            /\ fetched' = DictSet(fetched, read.value, content)
    /\ log' = <<"resource", "fetch", "report_loaded">>
    /\ pc' = "key_use"
    /\ UNCHANGED <<nrequests, nturns, first_tools, second_tools, tools, tools_by_name,
                   snap, checkpoints, args, run, invoked>>

\* The resource branch with a fetch that raises or returns nothing.
KeyLoadFails ==
    /\ pc = "key_load"
    /\ \E read \in {KeyRead(ResourcePrefix \o cmd.payload)} :
        \E report \in {"report_no_resource", "report_fetch_failure"} :
            /\ read.type = "resource"
            /\ cmd' = read
            /\ loaded_resources' = IF DictHas(loaded_resources, read.value)
                                   THEN DictDel(loaded_resources, read.value)
                                   ELSE loaded_resources
            /\ log' = <<"resource", "fetch", report>>
    /\ pc' = "key_use"
    /\ UNCHANGED <<fetched, nrequests, nturns, first_tools, second_tools, tools,
                   tools_by_name, snap, checkpoints, args, run, invoked>>

\* The use_resource branch, left at its first check.
KeyUseNoQuery ==
    /\ pc = "key_use"
    /\ \E read \in {KeyRead(UseResourcePrefix \o cmd.payload \o <<" ">> \o cmd.query)} :
        /\ read.type = "use_resource"
        /\ QueryMissing(read.value.query)
        /\ cmd' = read
    /\ log' = log \o <<"use_resource", "report_usage">>
    /\ pc' = "input"
    /\ UNCHANGED <<fetched, nrequests, nturns, first_tools, second_tools, tools,
                   tools_by_name, snap, loaded_resources, checkpoints, args, run, invoked>>

\* The use_resource branch, left at its second check.
KeyUseNotLoaded ==
    /\ pc = "key_use"
    /\ \E read \in {KeyRead(UseResourcePrefix \o cmd.payload \o <<" ">> \o cmd.query)} :
        /\ read.type = "use_resource"
        /\ ~QueryMissing(read.value.query)
        /\ ResourceMissing(loaded_resources, read.value.uri)
        /\ cmd' = read
    /\ log' = log \o <<"use_resource", "report_not_loaded">>
    /\ pc' = "input"
    /\ UNCHANGED <<fetched, nrequests, nturns, first_tools, second_tools, tools,
                   tools_by_name, snap, loaded_resources, checkpoints, args, run, invoked>>

\* The use_resource branch reaching agent.ainvoke.
KeyUse ==
    /\ pc = "key_use"
    /\ \E read \in {KeyRead(UseResourcePrefix \o cmd.payload \o <<" ">> \o cmd.query)} :
        /\ read.type = "use_resource"
        /\ ~QueryMissing(read.value.query)
        /\ ~ResourceMissing(loaded_resources, read.value.uri)
        /\ cmd' = read
        /\ AgentStart(inject_resource_into_message(loaded_resources, read.value.query,
                                                   read.value.uri),
                      "use_resource")
    /\ log' = log \o <<"use_resource", "invoke">>
    /\ UNCHANGED <<fetched, nrequests, nturns, first_tools, second_tools, tools,
                   tools_by_name, snap, loaded_resources, args>>

KeyNext == KeyLoad \/ KeyLoadFails \/ KeyUseNoQuery \/ KeyUseNotLoaded \/ KeyUse

KeySpec == KeyInit /\ [][KeyNext]_vars

(***************************************************************************)
(* Properties.                                                             *)
(***************************************************************************)
IsPrefix(a, b) == Len(a) <= Len(b) /\ SubSeq(b, 1, Len(a)) = a

Last(s) == s[Len(s)]

Logged(event) == \E n \in 1..Len(log) : log[n] = event

Count(event) == Cardinality({n \in 1..Len(log) : log[n] = event})

\* The messages the current turn appended to the Conversation.
TurnMessages ==
    SubSeq(Conversation, Len(snap.checkpoints[ThreadId]) + 1, Len(Conversation))

\* A turn has ended: the driver is back at its prompt after reading a line.
TurnEnded == pc = "input" /\ log # <<>>

\* C1: in the @resource: branch, when the backend fetch fails the failure
\* is reported and the cache holds after the turn what it held before it.
C1_FetchFailureLeavesCacheUnchanged ==
    (TurnEnded /\ Last(log) = "report_fetch_failure") => loaded_resources = snap.cache

\* C2: a @use_resource: turn invokes the agent exactly when its query is not
\* empty and its URI was in the cache when the line was read, which takes an
\* earlier successful load of that URI; otherwise the turn ends with a hint,
\* the agent not invoked and the Conversation untouched.
C2_UseResourceReachesAgentOnlyWhenCached ==
    (log # <<>> /\ log[1] = "use_resource") =>
        /\ Logged("invoke") <=>
               (cmd.value.query # <<>> /\ DictHas(snap.cache, cmd.value.uri))
        /\ Logged("invoke") => DictHas(fetched, cmd.value.uri)
        /\ ~Logged("invoke") =>
               /\ pc = "input"
               /\ log[2] \in {"report_usage", "report_not_loaded"}
               /\ checkpoints = snap.checkpoints
               /\ invoked = {th \in ThreadIds : snap.checkpoints[th] # <<>>}

C2_Witness ==
    /\ log = <<"use_resource", "invoke", "print_reply">>
    /\ DictHas(snap.cache, cmd.value.uri)
    /\ pc = "input"

\* The shape of one completed turn: the user message, then per tool round an
\* assistant message with tool requests followed by one tool message per
\* request, then one assistant message without tool requests.
RECURSIVE RoundsThenAnswer(_, _)
RoundsThenAnswer(msgs, n) ==
    IF n > Len(msgs) THEN FALSE
    ELSE IF msgs[n].type # "ai" THEN FALSE
    ELSE IF msgs[n].tool_calls = <<>> THEN n = Len(msgs)
    ELSE /\ n + Len(msgs[n].tool_calls) <= Len(msgs)
         /\ \A k \in 1..Len(msgs[n].tool_calls) : msgs[n + k].type = "tool"
         /\ RoundsThenAnswer(msgs, n + Len(msgs[n].tool_calls) + 1)

CompletedTurnShape(msgs) ==
    /\ msgs # <<>>
    /\ msgs[1].type = "human"
    /\ RoundsThenAnswer(msgs, 2)

ToolRounds(msgs) == {n \in 1..Len(msgs) : msgs[n].type = "ai" /\ msgs[n].tool_calls # <<>>}

\* C3: the messages a successfully completed agent turn appends are the new
\* user message, then the tool rounds in order, then the final answer; with
\* one round of one request they are user, tool request, tool result, answer.
C3_CompletedTurnAppendsRoundsInOrder ==
    (TurnEnded /\ Last(log) = "print_reply") =>
        /\ IsPrefix(snap.checkpoints[ThreadId], Conversation)
        /\ CompletedTurnShape(TurnMessages)
        /\ cmd.type = "none" => TurnMessages[1].content = cmd.message
        /\ (\E n \in ToolRounds(TurnMessages) :
               ToolRounds(TurnMessages) = {n} /\ Len(TurnMessages[n].tool_calls) = 1)
             => [n \in 1..Len(TurnMessages) |-> TurnMessages[n].type]
                    = <<"human", "ai", "tool", "ai">>

C3_Witness ==
    /\ TurnEnded
    /\ Last(log) = "print_reply"
    /\ Len(TurnMessages) = 4
    /\ TurnMessages[2].tool_calls # <<>>
    /\ TurnMessages[3].type = "tool"
    /\ TurnMessages[4].tool_calls = <<>>

\* C4: in the @prompt: branch, a first resolution that fails for an unknown
\* prompt name or a backend error is reported and the turn is aborted: no
\* argument line is read and no second resolution is attempted.
C4_OnlyNeedsArgumentsAsksForArguments ==
    (Len(log) >= 3 /\ log[1] = "prompt" /\ log[3] \in {"unknown_prompt", "backend_error"}) =>
        /\ pc = "input"
        /\ ~Logged("read_arguments")
        /\ Count("resolve") = 1

\* C5: in the argument-retry path, when parse_arguments returns the empty
\* mapping the turn is aborted with the parse-failure message: no second
\* resolution, no agent invocation, Conversation and cache as before the turn.
C5_EmptyArgumentsAbortTheTurn ==
    (Logged("read_arguments") /\ args = EmptyDict) =>
        /\ pc = "input"
        /\ Last(log) = "report_parse_failure"
        /\ Count("resolve") = 1
        /\ ~Logged("invoke")
        /\ checkpoints = snap.checkpoints
        /\ loaded_resources = snap.cache

C5_Witness ==
    /\ Logged("read_arguments")
    /\ args = EmptyDict
    /\ Last(log) = "report_parse_failure"
    /\ pc = "input"

\* A turn is under way: the driver awaits a backend, the model, a tool or
\* the argument line.
InTurn == pc \in {"resource_fetch", "prompt_load", "args_input", "prompt_load_args", "agent"}

C7_ConversationIsAppendOnly ==
    [][ /\ \A th \in ThreadIds : IsPrefix(checkpoints[th], checkpoints'[th])
        /\ invoked' \subseteq {ThreadId}
        /\ IsPrefix(snap'.checkpoints[ThreadId], checkpoints'[ThreadId]) ]_vars

C7_Witness ==
    /\ pc = "input"
    /\ Cardinality({n \in 1..Len(Conversation) : Conversation[n].type = "human"}) = 2
    /\ Len(snap.checkpoints[ThreadId]) > 0
    /\ Len(Conversation) > Len(snap.checkpoints[ThreadId])

\* Both backends serve a tool of the same name.
NameCollision ==
    \E i \in 1..Len(first_tools), j \in 1..Len(second_tools) :
        first_tools[i].name = second_tools[j].name

\* C8: when the two backends serve a tool of the same name, session setup
\* fails at startup; the session never runs with one tool shadowing the other.
C8_NameCollisionFailsSetup == NameCollision => pc \in {"setup", "failed"}

C10_ToolResultsInRequestOrder ==
    \A n \in 1..Len(Conversation) :
        (/\ Conversation[n].type = "ai"
         /\ n < Len(Conversation)
         /\ Conversation[n + 1].type = "tool") =>
            /\ n + Len(Conversation[n].tool_calls) <= Len(Conversation)
            /\ \A k \in 1..Len(Conversation[n].tool_calls) :
                   /\ Conversation[n + k].type = "tool"
                   /\ Conversation[n + k].tool_call_id = Conversation[n].tool_calls[k].id
                   /\ Conversation[n + k].name = Conversation[n].tool_calls[k].name

\* The second request's execution completed first, on another backend than
\* the first request's, and the round's results are in the Conversation.
C10_Witness ==
    /\ pc = "agent"
    /\ run.node = "chat_node"
    /\ run.completed = <<2, 1>>
    /\ Last(Conversation).type = "tool"
    /\ Last(Conversation).tool_call_id = run.calls[2].id
    /\ Conversation[Len(Conversation) - 1].tool_call_id = run.calls[1].id
    /\ Last(Conversation).content # Conversation[Len(Conversation) - 1].content

\* C11: parse_arguments returns a mapping whose keys and values are texts
\* (the empty mapping on total failure), whatever the text typed.
C11_ParseArgumentsReturnsTextMapping ==
    pc = "parse_return" =>
        /\ args.t = "dict"
        /\ \A i \in 1..Len(args.items) : args.items[i].v.t = "str"

\* The mapping of a list of pairs: a later pair of the same key replaces the
\* value of the earlier one.
RECURSIVE PairsMapping(_)
PairsMapping(pairs) ==
    IF pairs = <<>> THEN <<>>
    ELSE DictSet(PairsMapping(SubSeq(pairs, 1, Len(pairs) - 1)),
                 pairs[Len(pairs)].k, PyStr(pairs[Len(pairs)].v))

\* The comma-separated segments of a text that hold a colon.
ColonSegments(text) == SelectSeq(Split(Strip(text), ","), LAMBDA seg : Find(seg, ":") # 0)

\* The key and the value a segment stands for: the stripped text before its
\* first colon and the stripped text after it.
SegmentKey(seg) == Strip(Slice(seg, 1, Find(seg, ":") - 1))
SegmentValue(seg) == Strip(Slice(seg, Find(seg, ":") + 1, Len(seg)))

\* C12: the comma form and the JSON form of a list of pairs parse to the
\* mapping of the pairs (so a single k:v gives {k: v}); in a text that is no
\* JSON literal each segment with a colon is cut at its first colon, segments
\* without one are dropped, and a text without any colon gives the empty
\* mapping.
C12_ArgumentFormatsAgree ==
    pc = "parse_return" =>
        /\ cmd.type \in {"comma", "json"} => args = PyDict(PairsMapping(cmd.value))
        /\ (cmd.type = "free" /\ ~JsonLoads(Strip(cmd.message)).ok) =>
               LET segs == ColonSegments(cmd.message)
               IN  /\ args.t = "dict"
                   /\ {args.items[i].k : i \in 1..Len(args.items)}
                          = {SegmentKey(segs[n]) : n \in 1..Len(segs)}
                   /\ Len(args.items) = Cardinality({SegmentKey(segs[n]) : n \in 1..Len(segs)})
                   /\ \A i \in 1..Len(args.items) :
                          \E n \in 1..Len(segs) :
                              /\ SegmentKey(segs[n]) = args.items[i].k
                              /\ args.items[i].v = PyStr(SegmentValue(segs[n]))
                              /\ \A m \in (n + 1)..Len(segs) :
                                     SegmentKey(segs[m]) # args.items[i].k
                   /\ Find(cmd.message, ":") = 0 => args = EmptyDict

\* Two pairs, one value with a backslash, typed as a JSON object and parsed.
C12_Witness ==
    /\ pc = "parse_return"
    /\ cmd.type = "json"
    /\ Len(cmd.value) = 2
    /\ Len(args.items) = 2
    /\ args.items[2].v = PyStr(<<"\\">>)

\* The line begins with one of the three directive prefixes, letter for letter.
IsDirective(line) ==
    \/ IsPrefix(ResourcePrefix, line)
    \/ IsPrefix(PromptPrefix, line)
    \/ IsPrefix(UseResourcePrefix, line)

\* C13: a stripped line that begins with none of the three prefixes and is
\* not an exit word is classified as chat, enters no directive branch, and
\* the user message the agent receives is that line, unmodified.
C13_OtherLinesAreChat ==
    (pc \in {"dispatch", "directive", "agent"} /\ ~IsDirective(cmd.message)) =>
        /\ cmd.type = "none"
        /\ cmd.value = <<>>
        /\ pc # "directive"
        /\ pc = "agent" =>
               /\ Len(Conversation) = 1
               /\ Conversation[1].type = "human"
               /\ Conversation[1].content = cmd.message

\* A line that begins like a directive in another letter case reached the agent.
C13_Witness ==
    /\ pc = "agent"
    /\ Len(cmd.message) > 1
    /\ cmd.message[1] = "@"
    /\ cmd.message[2] = "R"
    /\ Conversation[1].content = cmd.message

\* The stripped text after the use_resource prefix.
Remainder(line) == Strip(Slice(line, Len(UseResourcePrefix) + 1, Len(line)))

\* The position of the first character of the set in the text, 0 if none.
FirstOf(text, chars) ==
    IF \E i \in 1..Len(text) : text[i] \in chars
    THEN CHOOSE i \in 1..Len(text) :
             text[i] \in chars /\ \A j \in 1..(i - 1) : text[j] \notin chars
    ELSE 0

\* The URI and the query a remainder stands for when it is cut at the first
\* character of the set.
CutAt(text, chars) ==
    IF FirstOf(text, chars) = 0
    THEN [uri |-> text, query |-> <<>>]
    ELSE [uri |-> Strip(Slice(text, 1, FirstOf(text, chars) - 1)),
          query |-> Strip(Slice(text, FirstOf(text, chars) + 1, Len(text)))]

\* C14 as stated: the remainder of a use_resource line is cut at its first
\* whitespace character of any kind.
C14_SplitsAtFirstWhitespace ==
    (pc \in {"dispatch", "directive"} /\ IsPrefix(UseResourcePrefix, cmd.message)) =>
        /\ cmd.type = "use_resource"
        /\ cmd.value = CutAt(Remainder(cmd.message), Whitespace)

\* C14, amended: the remainder of a use_resource line is cut at its first
\* space character; the URI is the stripped text before it, the query the
\* stripped text after it, and without a space the URI is the whole
\* remainder and the query is empty.  A tab does not separate.
C14_SplitsAtFirstSpace ==
    (pc \in {"dispatch", "directive"} /\ IsPrefix(UseResourcePrefix, cmd.message)) =>
        /\ cmd.type = "use_resource"
        /\ cmd.value = CutAt(Remainder(cmd.message), {" "})
        /\ cmd.message = UseResourcePrefix \o <<"f", "o", "o", " ", "b", "a", "r", " ", "b", "a", "z">>
              => cmd.value = [uri |-> <<"f", "o", "o">>,
                              query |-> <<"b", "a", "r", " ", "b", "a", "z">>]
        /\ cmd.message = UseResourcePrefix \o <<"f", "o", "o">>
              => cmd.value = [uri |-> <<"f", "o", "o">>, query |-> <<>>]

\* A use_resource line with a tab inside its remainder entered the branch.
C14_Witness ==
    /\ pc = "directive"
    /\ cmd.type = "use_resource"
    /\ cmd.value.uri = <<"x", "\t", "x">>
    /\ cmd.value.query = <<>>

\* The step in which the model call of chat_node raises and the driver
\* reports it.
ModelCallFails ==
    /\ pc = "agent"
    /\ run.node = "chat_node"
    /\ log' = Append(log, "report_agent_error")

\* The step in which the turn after a failed model call invokes the agent.
InvokeAfterFailure ==
    /\ TurnEnded
    /\ Last(log) = "report_agent_error"
    /\ ~Logged("recursion_limit")
    /\ pc' = "agent"

\* C15: when the model call fails the turn is aborted and reported, nothing
\* is appended for the failed call, the Conversation keeps exactly what was
\* committed before, and the next turn starts at the model call on that
\* Conversation extended by its user message.
C15_ModelFailureKeepsCommittedMessages ==
    [][ /\ ModelCallFails =>
              /\ checkpoints' = checkpoints
              /\ run' = NoRun
              /\ pc' = "input"
        /\ InvokeAfterFailure =>
              /\ Len(Conversation') = Len(Conversation) + 1
              /\ IsPrefix(Conversation, Conversation')
              /\ Last(Conversation').type = "human"
              /\ run'.node = "chat_node"
              /\ run'.thread = ThreadId ]_vars

\* A model call failed after a tool round, and the next turn is at its model
\* call on the Conversation that kept the round.
C15_Witness ==
    /\ pc = "agent"
    /\ run.node = "chat_node"
    /\ Len(Conversation) >= 4
    /\ Conversation[Len(Conversation) - 1].type = "tool"
    /\ Last(Conversation).type = "human"

\* C16: a @prompt: turn resolves the prompt at most twice, the second time
\* only after the one argument line it reads, invokes the agent at most
\* once, and ends when the second resolution fails.
C16_PromptTurnIsABoundedRetry ==
    (log # <<>> /\ log[1] = "prompt") =>
        /\ Count("resolve") <= 2
        /\ Count("read_arguments") <= 1
        /\ Count("invoke") <= 1
        /\ Count("resolve") <= 1 + Count("read_arguments")
        /\ pc \in {"prompt_load", "args_input", "prompt_load_args", "agent", "input"}
        /\ pc = "prompt_load" => (Count("resolve") = 1 /\ Count("read_arguments") = 0)
        /\ pc = "args_input" => (Count("resolve") = 1 /\ Count("read_arguments") = 0)
        /\ pc = "prompt_load_args" => (Count("resolve") = 2 /\ Count("read_arguments") = 1)
        /\ Logged("report_failed_with_arguments") =>
               /\ pc = "input"
               /\ Last(log) = "report_failed_with_arguments"
               /\ ~Logged("invoke")

\* Both resolutions of a @prompt: turn failed and the turn has ended.
C16_Witness ==
    /\ TurnEnded
    /\ log[1] = "prompt"
    /\ Last(log) = "report_failed_with_arguments"
    /\ Count("resolve") = 2
    /\ Count("read_arguments") = 1

\* C17: a @resource: turn does not touch the Conversation: through the
\* fetch and after each of its outcomes (content, nothing, an exception) the
\* agent is not invoked and the Conversation is what it was before the turn.
C17_ResourceTurnLeavesConversation ==
    (log # <<>> /\ log[1] = "resource") =>
        /\ checkpoints = snap.checkpoints
        /\ run = NoRun
        /\ ~Logged("invoke")
        /\ pc \in {"resource_fetch", "input"}
        /\ pc = "input" =>
               Last(log) \in {"report_loaded", "report_no_resource", "report_fetch_failure"}

\* A @resource: turn stored content while the Conversation held messages.
C17_Witness ==
    /\ TurnEnded
    /\ log[1] = "resource"
    /\ Last(log) = "report_loaded"
    /\ Len(Conversation) >= 2
    /\ loaded_resources # snap.cache

\* C18: only @resource: turns change the cache, and every cached URI holds
\* the content of the latest fetch of that URI that returned content.
C18_CacheHoldsLatestFetch ==
    /\ \A i \in 1..Len(DictKeys(loaded_resources)) :
           /\ DictHas(fetched, DictKeys(loaded_resources)[i])
           /\ DictGet(loaded_resources, DictKeys(loaded_resources)[i])
                 = DictGet(fetched, DictKeys(loaded_resources)[i])
    /\ (log # <<>> /\ log[1] \in {"chat", "prompt", "use_resource"}) =>
           loaded_resources = snap.cache

\* A URI was loaded again and the cache holds the new content, not the old.
C18_Witness ==
    /\ TurnEnded
    /\ log[1] = "resource"
    /\ Last(log) = "report_loaded"
    /\ DictHas(snap.cache, cmd.value)
    /\ DictGet(snap.cache, cmd.value) = <<"A">>
    /\ DictGet(loaded_resources, cmd.value) = <<"B">>

\* C19: the driver composes a message only for a URI that is in the cache,
\* so the message a @use_resource: turn sends to the agent is the marker
\* line naming the URI, the cached content as it is, a blank line and the
\* query, and no user message in the Conversation is the error block.
C19_ComposedMessageUsesCachedContent ==
    /\ (log # <<>> /\ log[1] = "use_resource" /\ Logged("invoke")) =>
           /\ DictHas(snap.cache, cmd.value.uri)
           /\ Len(TurnMessages) >= 1
           /\ TurnMessages[1].type = "human"
           /\ TurnMessages[1].content =
                  <<"[", "U", "S", "I", "N", "G", " ", "R", "E", "S", "O", "U", "R", "C", "E", ":", " ">>
                      \o cmd.value.uri \o <<"]", "\n">>
                      \o DictGet(snap.cache, cmd.value.uri)
                      \o <<"\n", "\n", "U", "s", "e", "r", " ", "q", "u", "e", "r", "y", ":", " ">>
                      \o cmd.value.query
    /\ \A th \in ThreadIds :
           \A i \in 1..Len(checkpoints[th]) :
               checkpoints[th][i].type = "human" =>
                   ~IsPrefix(<<"[", "E", "R", "R", "O", "R", ":", " ", "R", "e", "s", "o", "u", "r", "c", "e">>,
                             checkpoints[th][i].content)

\* A @use_resource: turn sent the content B of its URI and was answered.
C19_Witness ==
    /\ TurnEnded
    /\ log[1] = "use_resource"
    /\ Last(log) = "print_reply"
    /\ DictGet(snap.cache, cmd.value.uri) = <<"B">>
    /\ cmd.value.query # <<>>

\* C20: after "@resource:P" was loaded, for a payload P without whitespace,
\* "@use_resource:P q" with a query looks the content up under the key it
\* was cached under and reaches the agent.
C20_LoadAndUseAgreeOnKey ==
    (/\ pc \notin {"key_load", "key_use"}
     /\ Logged("report_loaded")
     /\ cmd.query # <<>>) =>
        /\ cmd.type = "use_resource"
        /\ DictHas(loaded_resources, cmd.value.uri)
        /\ pc = "agent"
        /\ Last(log) = "invoke"

=============================================================================
